---- MODULE Spec2Model ----
(***************************************************************************)
(* Model of src/main.py: the trade ledger (TradeTracker), the notifier     *)
(* with its retry queue (TelegramNotifier) and the webhook handlers and    *)
(* scheduler jobs of TradingBot.                                           *)
(*                                                                         *)
(* Trade objects are Python objects shared by reference between            *)
(* active_trades, closed_trades, daily_trades and weekly_trades: `trades`  *)
(* is the heap, and the four collections hold indexes into it.             *)
(* profit_r is kept in tenths of R (1.5R = 15, -1.0R = -10).               *)
(***************************************************************************)
EXTENDS Integers, Sequences, FiniteSets, TLC

\* ---------------------------------------------------------------- bounds
MaxTrades == 2
MaxBacklog == 1
MaxSteps == 5
MaxRequests == 3
\* Longest list of queued messages the retry job starts from.
MaxQueue == 3
\* Most trades registered before the statistics are computed.
MaxWindow == 3
\* Most webhooks handled beside the summary jobs run in steps.
MaxJobRequests == 2

\* -------------------------------------------------------------- constants
max_retries == 3

Ids == {"X1", "X2"}
Symbols == {"XAUUSD"}
TpLevels == {"TP1", "TP2", "TP3"}
Levels == TpLevels \cup {"SL"}
BadLevels == {"UNKNOWN"}
Outcomes == {"ok", "throttled", "error", "timeout", "connection"}
Threads == {1, 2}

VARIABLES
    telegram,         \* TradingBot.telegram is a notifier (TRUE) or None (FALSE)
    trades,           \* heap of Trade objects
    active_trades,    \* TradeTracker.active_trades: id -> heap index
    closed_trades,    \* TradeTracker.closed_trades: list of heap indexes
    daily_trades,     \* TradeTracker.daily_trades
    weekly_trades,    \* TradeTracker.weekly_trades
    tp1_sent, tp2_sent, tp3_sent, sl_sent,   \* TradeTracker dedup id sets
    failed_messages,  \* TelegramNotifier.failed_messages
    pc,               \* per request thread: position in its handler
    req,              \* per request thread: the event it is handling
    last,             \* history: what the last completed handler or job did
    dispatched,       \* history: (trade object, level) notifications handed to
                      \* send_message
    granted,          \* history: (id, level) for which should_send_* returned
                      \* True since the last reset_weekly
    steps,            \* number of handler and job steps taken so far
    sm,               \* one call of send_message: its transport and its result
    flush,            \* the scheduler thread inside retry_failed_messages
    delivered,        \* history: queued messages that send_message delivered
    enqueued,         \* history: messages appended to failed_messages by handlers
    stats,            \* what get_daily_stats / get_weekly_stats returned
    job               \* the scheduler thread inside a summary job

guards == <<tp1_sent, tp2_sent, tp3_sent, sl_sent>>
ledger == <<trades, active_trades, closed_trades, daily_trades, weekly_trades>>
threads == <<pc, req>>
vars == <<telegram, trades, active_trades, closed_trades, daily_trades,
          weekly_trades, tp1_sent, tp2_sent, tp3_sent, sl_sent,
          failed_messages, pc, req, last, dispatched, granted, steps,
          sm, flush, delivered, enqueued, stats, job>>
\* State of the parts that are idle while webhooks are handled one at a time.
aux == <<sm, flush, delivered, enqueued, stats, job>>

\* ------------------------------------------------------------------ Trade
\* Trade(...) with the dataclass defaults of its state and tracking fields.
Trade(id, symbol) ==
    [id |-> id, symbol |-> symbol,
     tp1_hit |-> FALSE, tp2_hit |-> FALSE, tp3_hit |-> FALSE, sl_hit |-> FALSE,
     closed |-> FALSE, final_result |-> "ACTIVE", profit_r |-> 0,
     tp1_notified |-> FALSE, tp2_notified |-> FALSE, tp3_notified |-> FALSE,
     sl_notified |-> FALSE]

NoEvent == [kind |-> "NONE", id |-> "", level |-> "", obj |-> 0]
\* kind/id/level: the event or job; should: what should_send_* returned
\* ("none" when it was not called); applied: update_trade_* was called;
\* send: "none" when nothing was handed to send_message, else its outcome;
\* ret: the handler's return value (process_webhook's result).
Done(kind, id, level, should, applied, send, ret) ==
    [kind |-> kind, id |-> id, level |-> level, should |-> should,
     applied |-> applied, send |-> send, ret |-> ret]
NoLast == Done("NONE", "", "", "none", FALSE, "none", TRUE)
NoCall == [pc |-> "none", outs |-> <<>>, ok |-> FALSE, calls |-> 0]
NoFlush ==
    [pc |-> "idle", retry_queue |-> <<>>, k |-> 0, results |-> <<>>, base |-> 0]
\* Python's None, as get_daily_stats returns it for an empty window.
None == [kind |-> "None"]
NoStats == [call |-> "none", ret |-> None]
JobKinds == {"daily", "weekly"}
\* A summary job at rest: sent is "none" until its run reaches the send.
NoJob == [kind \in JobKinds |-> [pc |-> "idle", stats |-> None, sent |-> "none"]]
SendOutcome(success) == IF success THEN "ok" ELSE "failed"

LevelHit(tr, level) ==
    CASE level = "TP1" -> tr.tp1_hit
      [] level = "TP2" -> tr.tp2_hit
      [] level = "TP3" -> tr.tp3_hit
      [] level = "SL" -> tr.sl_hit

\* ----------------------------------------------------------- TradeTracker
\* Variant of add_trade that keeps the trade already stored under the id
\* (setdefault instead of assignment).
add_trade_keep_existing(trade) ==
    /\ trades' = Append(trades, trade)
    /\ active_trades' =
         [k \in DOMAIN active_trades \cup {trade.id} |->
            IF k \in DOMAIN active_trades THEN active_trades[k]
            ELSE Len(trades) + 1]
    /\ daily_trades' = Append(daily_trades, Len(trades) + 1)
    /\ weekly_trades' = Append(weekly_trades, Len(trades) + 1)
    /\ UNCHANGED closed_trades

\* active_trades[trade.id] = trade; both windows get the same object.
add_trade(trade) ==
    /\ trades' = Append(trades, trade)
    /\ active_trades' =
         [k \in DOMAIN active_trades \cup {trade.id} |->
            IF k = trade.id THEN Len(trades) + 1 ELSE active_trades[k]]
    /\ daily_trades' = Append(daily_trades, Len(trades) + 1)
    /\ weekly_trades' = Append(weekly_trades, Len(trades) + 1)
    /\ UNCHANGED closed_trades

SentOf(level) ==
    CASE level = "TP1" -> tp1_sent
      [] level = "TP2" -> tp2_sent
      [] level = "TP3" -> tp3_sent
      [] level = "SL" -> sl_sent

\* `if trade_id in self.<level>_sent`
should_send_test(level, trade_id) == trade_id \in SentOf(level)

\* Variant of the insertion that always inserts into tp1_sent.
should_send_add_tp1_only(level, trade_id) ==
    /\ tp1_sent' = tp1_sent \cup {trade_id}
    /\ UNCHANGED <<tp2_sent, tp3_sent, sl_sent>>

\* `self.<level>_sent.add(trade_id)`
should_send_add(level, trade_id) ==
    /\ tp1_sent' = IF level = "TP1" THEN tp1_sent \cup {trade_id} ELSE tp1_sent
    /\ tp2_sent' = IF level = "TP2" THEN tp2_sent \cup {trade_id} ELSE tp2_sent
    /\ tp3_sent' = IF level = "TP3" THEN tp3_sent \cup {trade_id} ELSE tp3_sent
    /\ sl_sent' = IF level = "SL" THEN sl_sent \cup {trade_id} ELSE sl_sent

\* The four should_send_* methods run without interruption: result is the
\* value returned.
should_send(level, trade_id, result) ==
    IF should_send_test(level, trade_id)
    THEN result = FALSE /\ UNCHANGED guards
    ELSE result = TRUE /\ should_send_add(level, trade_id)

should_send_tp1(trade_id, result) == should_send("TP1", trade_id, result)
should_send_tp2(trade_id, result) == should_send("TP2", trade_id, result)
should_send_tp3(trade_id, result) == should_send("TP3", trade_id, result)
should_send_sl(trade_id, result) == should_send("SL", trade_id, result)

\* Variant of close_trade that appends without popping.
close_trade_keep_active(trade_id) ==
    IF trade_id \in DOMAIN active_trades
    THEN /\ closed_trades' = Append(closed_trades, active_trades[trade_id])
         /\ UNCHANGED active_trades
    ELSE UNCHANGED <<active_trades, closed_trades>>

\* Variant of close_trade that puts the trade at the head of closed_trades.
close_trade_prepend(trade_id) ==
    IF trade_id \in DOMAIN active_trades
    THEN /\ active_trades' =
              [k \in DOMAIN active_trades \ {trade_id} |-> active_trades[k]]
         /\ closed_trades' = <<active_trades[trade_id]>> \o closed_trades
    ELSE UNCHANGED <<active_trades, closed_trades>>

\* Pops the trade from active_trades and appends it to closed_trades.
close_trade(trade_id) ==
    IF trade_id \in DOMAIN active_trades
    THEN /\ active_trades' =
              [k \in DOMAIN active_trades \ {trade_id} |-> active_trades[k]]
         /\ closed_trades' = Append(closed_trades, active_trades[trade_id])
    ELSE UNCHANGED <<active_trades, closed_trades>>

\* Variant of update_trade_tp whose TP3 branch does not set closed.
update_trade_tp_no_closed_flag(trade_id, level) ==
    IF trade_id \notin DOMAIN active_trades
    THEN UNCHANGED <<trades, active_trades, closed_trades>>
    ELSE LET t == active_trades[trade_id] IN
         IF level = "TP1" /\ ~trades[t].tp1_notified
         THEN /\ trades' = [trades EXCEPT ![t].tp1_hit = TRUE,
                                          ![t].tp1_notified = TRUE,
                                          ![t].profit_r = 15]
              /\ UNCHANGED <<active_trades, closed_trades>>
         ELSE IF level = "TP2" /\ ~trades[t].tp2_notified
         THEN /\ trades' = [trades EXCEPT ![t].tp2_hit = TRUE,
                                          ![t].tp2_notified = TRUE,
                                          ![t].profit_r = 25]
              /\ UNCHANGED <<active_trades, closed_trades>>
         ELSE IF level = "TP3" /\ ~trades[t].tp3_notified
         THEN /\ trades' = [trades EXCEPT ![t].tp3_hit = TRUE,
                                          ![t].tp3_notified = TRUE,
                                          ![t].final_result = "TP3",
                                          ![t].profit_r = 40]
              /\ close_trade(trade_id)
         ELSE UNCHANGED <<trades, active_trades, closed_trades>>

\* Variant of update_trade_tp that takes TP2 only after TP1.
update_trade_tp_in_order(trade_id, level) ==
    IF trade_id \notin DOMAIN active_trades
    THEN UNCHANGED <<trades, active_trades, closed_trades>>
    ELSE LET t == active_trades[trade_id] IN
         IF level = "TP1" /\ ~trades[t].tp1_notified
         THEN /\ trades' = [trades EXCEPT ![t].tp1_hit = TRUE,
                                          ![t].tp1_notified = TRUE,
                                          ![t].profit_r = 15]
              /\ UNCHANGED <<active_trades, closed_trades>>
         ELSE IF level = "TP2" /\ ~trades[t].tp2_notified /\ trades[t].tp1_hit
         THEN /\ trades' = [trades EXCEPT ![t].tp2_hit = TRUE,
                                          ![t].tp2_notified = TRUE,
                                          ![t].profit_r = 25]
              /\ UNCHANGED <<active_trades, closed_trades>>
         ELSE IF level = "TP3" /\ ~trades[t].tp3_notified
         THEN /\ trades' = [trades EXCEPT ![t].tp3_hit = TRUE,
                                          ![t].tp3_notified = TRUE,
                                          ![t].final_result = "TP3",
                                          ![t].profit_r = 40,
                                          ![t].closed = TRUE]
              /\ close_trade(trade_id)
         ELSE UNCHANGED <<trades, active_trades, closed_trades>>

update_trade_tp(trade_id, level) ==
    IF trade_id \notin DOMAIN active_trades
    THEN UNCHANGED <<trades, active_trades, closed_trades>>
    ELSE LET t == active_trades[trade_id] IN
         IF level = "TP1" /\ ~trades[t].tp1_notified
         THEN /\ trades' = [trades EXCEPT ![t].tp1_hit = TRUE,
                                          ![t].tp1_notified = TRUE,
                                          ![t].profit_r = 15]
              /\ UNCHANGED <<active_trades, closed_trades>>
         ELSE IF level = "TP2" /\ ~trades[t].tp2_notified
         THEN /\ trades' = [trades EXCEPT ![t].tp2_hit = TRUE,
                                          ![t].tp2_notified = TRUE,
                                          ![t].profit_r = 25]
              /\ UNCHANGED <<active_trades, closed_trades>>
         ELSE IF level = "TP3" /\ ~trades[t].tp3_notified
         THEN /\ trades' = [trades EXCEPT ![t].tp3_hit = TRUE,
                                          ![t].tp3_notified = TRUE,
                                          ![t].final_result = "TP3",
                                          ![t].profit_r = 40,
                                          ![t].closed = TRUE]
              /\ close_trade(trade_id)
         ELSE UNCHANGED <<trades, active_trades, closed_trades>>

\* Variant of update_trade_sl that does not call close_trade.
update_trade_sl_no_close(trade_id) ==
    IF trade_id \notin DOMAIN active_trades
    THEN UNCHANGED <<trades, active_trades, closed_trades>>
    ELSE LET t == active_trades[trade_id] IN
         IF ~trades[t].sl_notified
         THEN /\ trades' = [trades EXCEPT ![t].sl_hit = TRUE,
                                          ![t].sl_notified = TRUE,
                                          ![t].final_result = "SL",
                                          ![t].profit_r = -10,
                                          ![t].closed = TRUE]
              /\ UNCHANGED <<active_trades, closed_trades>>
         ELSE UNCHANGED <<trades, active_trades, closed_trades>>

\* Variant of update_trade_sl without `trade.sl_notified = True`.
update_trade_sl_hit_only(trade_id) ==
    IF trade_id \notin DOMAIN active_trades
    THEN UNCHANGED <<trades, active_trades, closed_trades>>
    ELSE LET t == active_trades[trade_id] IN
         IF ~trades[t].sl_notified
         THEN /\ trades' = [trades EXCEPT ![t].sl_hit = TRUE,
                                          ![t].final_result = "SL",
                                          ![t].profit_r = -10,
                                          ![t].closed = TRUE]
              /\ close_trade(trade_id)
         ELSE UNCHANGED <<trades, active_trades, closed_trades>>

update_trade_sl(trade_id) ==
    IF trade_id \notin DOMAIN active_trades
    THEN UNCHANGED <<trades, active_trades, closed_trades>>
    ELSE LET t == active_trades[trade_id] IN
         IF ~trades[t].sl_notified
         THEN /\ trades' = [trades EXCEPT ![t].sl_hit = TRUE,
                                          ![t].sl_notified = TRUE,
                                          ![t].final_result = "SL",
                                          ![t].profit_r = -10,
                                          ![t].closed = TRUE]
              /\ close_trade(trade_id)
         ELSE UNCHANGED <<trades, active_trades, closed_trades>>

reset_daily == daily_trades' = <<>>

\* reset_weekly without `self.sl_sent.clear()`.
reset_weekly_keep_sl_sent ==
    /\ weekly_trades' = <<>>
    /\ tp1_sent' = {}
    /\ tp2_sent' = {}
    /\ tp3_sent' = {}
    /\ UNCHANGED sl_sent

reset_weekly ==
    /\ weekly_trades' = <<>>
    /\ tp1_sent' = {}
    /\ tp2_sent' = {}
    /\ tp3_sent' = {}
    /\ sl_sent' = {}

\* closed = [t for t in window if t.closed]; a window holds heap indexes.
closed_of(window) == SelectSeq(window, LAMBDA o : trades[o].closed)

\* len([t for t in closed if t.final_result == result])
count_result(closed, result) ==
    Len(SelectSeq(closed, LAMBDA o : trades[o].final_result = result))

\* sum([t.profit_r for t in closed]), in tenths of R.
RECURSIVE sum_profit_r(_)
sum_profit_r(closed) ==
    IF closed = <<>> THEN 0
    ELSE trades[Head(closed)].profit_r + sum_profit_r(Tail(closed))

\* The statistics with total_r summed over the whole window.
window_stats_sum_all(window) ==
    IF window = <<>> THEN None
    ELSE LET total == Len(window)
             closed == closed_of(window)
             wins == count_result(closed, "TP3") + count_result(closed, "TP2")
                        + count_result(closed, "TP1")
         IN IF closed = <<>>
            THEN [kind |-> "dict", total_signals |-> total,
                  closed_trades |-> 0, active_trades |-> total]
            ELSE [kind |-> "dict", total_signals |-> total,
                  closed_trades |-> Len(closed),
                  active_trades |-> total - Len(closed),
                  tp3_count |-> count_result(closed, "TP3"),
                  tp2_count |-> count_result(closed, "TP2"),
                  tp1_count |-> count_result(closed, "TP1"),
                  sl_count |-> count_result(closed, "SL"),
                  wins |-> wins,
                  losses |-> count_result(closed, "SL"),
                  win_rate |-> [num |-> wins * 100, den |-> Len(closed)],
                  total_r |-> sum_profit_r(window),
                  avg_r |-> [num |-> sum_profit_r(window), den |-> Len(closed)]]

\* The body get_daily_stats and get_weekly_stats share, over their window.
\* win_rate = wins / len(closed) * 100 and avg_r = total_r / len(closed) are
\* floats: they are kept as the fractions num / den they approximate.
window_stats(window) ==
    IF window = <<>> THEN None
    ELSE LET total == Len(window)
             closed == closed_of(window)
             tp3 == count_result(closed, "TP3")
             tp2 == count_result(closed, "TP2")
             tp1 == count_result(closed, "TP1")
             sl == count_result(closed, "SL")
             wins == tp3 + tp2 + tp1
             total_r == sum_profit_r(closed)
         IN IF closed = <<>>
            THEN [kind |-> "dict", total_signals |-> total,
                  closed_trades |-> 0, active_trades |-> total]
            ELSE [kind |-> "dict", total_signals |-> total,
                  closed_trades |-> Len(closed),
                  active_trades |-> total - Len(closed),
                  tp3_count |-> tp3, tp2_count |-> tp2, tp1_count |-> tp1,
                  sl_count |-> sl, wins |-> wins, losses |-> sl,
                  win_rate |-> [num |-> wins * 100, den |-> Len(closed)],
                  total_r |-> total_r,
                  avg_r |-> [num |-> total_r, den |-> Len(closed)]]

get_daily_stats == window_stats(daily_trades)

\* by_symbol of get_weekly_stats: per symbol of a closed trade, its wins
\* (final_result TP1..TP3), its losses (any other) and its total_r.
by_symbol(closed) ==
    [sym \in {trades[closed[i]].symbol : i \in 1..Len(closed)} |->
        LET mine == SelectSeq(closed, LAMBDA o : trades[o].symbol = sym)
            won == SelectSeq(mine, LAMBDA o : trades[o].final_result \in TpLevels)
        IN [wins |-> Len(won), losses |-> Len(mine) - Len(won),
            total_r |-> sum_profit_r(mine)]]

get_weekly_stats ==
    LET common == window_stats(weekly_trades)
        closed == closed_of(weekly_trades)
    IN IF closed = <<>> THEN common
       ELSE [k \in DOMAIN common \cup {"by_symbol"} |->
                IF k = "by_symbol" THEN by_symbol(closed) ELSE common[k]]

\* ------------------------------------------------------- TelegramNotifier
TransportRuns == [1..max_retries -> Outcomes]

\* The retry loop of send_message from 0-based `attempt` on; outs[k] is what
\* the k-th requests.post does.  ok is the value returned, calls the number
\* of transport calls made.
RECURSIVE send_loop(_, _)
send_loop(outs, attempt) ==
    IF attempt >= max_retries
    THEN [ok |-> FALSE, calls |-> attempt]
    ELSE IF outs[attempt + 1] = "ok"
    THEN [ok |-> TRUE, calls |-> attempt + 1]
    ELSE IF outs[attempt + 1] = "throttled"
    THEN send_loop(outs, attempt + 1)
    ELSE IF attempt < max_retries - 1
    THEN send_loop(outs, attempt + 1)
    ELSE [ok |-> FALSE, calls |-> attempt + 1]

\* send_message with `for attempt in range(max_retries + 1)`.
RECURSIVE send_loop_extra(_, _)
send_loop_extra(outs, attempt) ==
    IF attempt >= max_retries + 1
    THEN [ok |-> FALSE, calls |-> attempt]
    ELSE IF outs[attempt + 1] = "ok"
    THEN [ok |-> TRUE, calls |-> attempt + 1]
    ELSE send_loop_extra(outs, attempt + 1)

send_message_extra_attempt(outs) ==
    IF Len(outs) > max_retries THEN send_loop_extra(outs, 0)
    ELSE send_loop(outs, 0)

\* send_message that returns False at the first failed attempt that is not a
\* 429, without using the attempts left.
RECURSIVE send_loop_no_retry(_, _)
send_loop_no_retry(outs, attempt) ==
    IF attempt >= max_retries
    THEN [ok |-> FALSE, calls |-> attempt]
    ELSE IF outs[attempt + 1] = "ok"
    THEN [ok |-> TRUE, calls |-> attempt + 1]
    ELSE IF outs[attempt + 1] = "throttled"
    THEN send_loop_no_retry(outs, attempt + 1)
    ELSE [ok |-> FALSE, calls |-> attempt + 1]

send_message_no_retry(outs) == send_loop_no_retry(outs, 0)

send_message(outs) == send_loop(outs, 0)

\* Every value send_message can return, over all transport behaviours.
SendResults == {send_message(outs).ok : outs \in TransportRuns}

Message(type, id) == [type |-> type, id |-> id]

\* `success = self.send_message(message)`, then the append to failed_messages
\* when it failed; success is what the send_* method returns.
send_new_trade_signal(id, success) ==
    failed_messages' = IF success THEN failed_messages
                       ELSE Append(failed_messages, Message("NEW_TRADE", id))

send_tp_hit(id, level, success) ==
    failed_messages' = IF success THEN failed_messages
                       ELSE Append(failed_messages, Message(level, id))

send_sl_hit(id, success) ==
    failed_messages' = IF success THEN failed_messages
                       ELSE Append(failed_messages, Message("SL", id))

\* The summaries return send_message's value and queue nothing.
send_daily_summary(success) == UNCHANGED failed_messages
send_weekly_summary(success) == UNCHANGED failed_messages

\* Entries of `queue` whose send failed, in order (results[k] is what
\* send_message returned for queue[k]).
RECURSIVE requeue(_, _, _)
requeue(queue, results, k) ==
    IF k > Len(queue) THEN <<>>
    ELSE IF results[k] THEN requeue(queue, results, k + 1)
    ELSE <<queue[k]>> \o requeue(queue, results, k + 1)

retry_failed_messages(results) ==
    IF failed_messages = <<>>
    THEN UNCHANGED failed_messages
    ELSE failed_messages' = requeue(failed_messages, results, 1)

\* ------------------------------------------------------------- TradingBot
Idle == \A t \in Threads : pc[t] = "idle"

\* Every handler and job step counts towards the length of the run.
Tick == steps < MaxSteps /\ steps' = steps + 1

\* With interleaved handlers, the requests begun are counted, not their steps.
Begin == steps < MaxRequests /\ steps' = steps + 1

\* The body of handle_new_trade.
new_trade(id, symbol) ==
    /\ Len(trades) < MaxTrades
    /\ Len(failed_messages) < MaxBacklog
    /\ add_trade(Trade(id, symbol))
    /\ IF telegram
       THEN \E success \in SendResults :
              /\ send_new_trade_signal(id, success)
              /\ last' = Done("NEW_TRADE", id, "", "none", FALSE,
                              SendOutcome(success), success)
       ELSE /\ UNCHANGED failed_messages
            /\ last' = Done("NEW_TRADE", id, "", "none", FALSE, "none", TRUE)
    /\ UNCHANGED <<aux, telegram, guards, threads, dispatched, granted>>

\* handle_new_trade, run without interruption.
handle_new_trade(id, symbol) ==
    /\ Idle
    /\ Tick
    /\ new_trade(id, symbol)

\* The level dispatch of handle_tp_hit: which should_send_* is asked.
should_send_level(level, trade_id, result) ==
    IF level = "TP1" THEN should_send_tp1(trade_id, result)
    ELSE IF level = "TP2" THEN should_send_tp2(trade_id, result)
    ELSE should_send_tp3(trade_id, result)

\* The trade object a level event for trade_id reaches: active_trades[trade_id],
\* 0 when the id is not a key.
ActiveObj(trade_id) ==
    IF trade_id \in DOMAIN active_trades THEN active_trades[trade_id] ELSE 0

\* History of the notifications of trades handed to send_message.
Dispatch(obj, level) ==
    dispatched' = IF obj = 0 THEN dispatched ELSE dispatched \cup {<<obj, level>>}

\* handle_tp_hit with a level of TP1, TP2 or TP3, run without interruption.
handle_tp_hit(id, level) ==
    /\ Idle
    /\ Tick
    /\ Len(failed_messages) < MaxBacklog
    /\ \E result \in BOOLEAN :
         /\ should_send_level(level, id, result)
         /\ IF ~result
            THEN /\ UNCHANGED <<trades, active_trades, closed_trades,
                                failed_messages, dispatched, granted>>
                 /\ last' = Done("TP_HIT", id, level, "false", FALSE, "none", TRUE)
            ELSE /\ granted' = granted \cup {<<id, level>>}
                 /\ update_trade_tp(id, level)
                 /\ IF telegram
                    THEN \E success \in SendResults :
                           /\ send_tp_hit(id, level, success)
                           /\ Dispatch(ActiveObj(id), level)
                           /\ last' = Done("TP_HIT", id, level, "true", TRUE,
                                           SendOutcome(success), success)
                    ELSE /\ UNCHANGED <<failed_messages, dispatched>>
                         /\ last' = Done("TP_HIT", id, level, "true", TRUE,
                                         "none", TRUE)
    /\ UNCHANGED <<aux, telegram, daily_trades, weekly_trades, threads>>

\* Variant of the unknown-level branch that reports success.
handle_tp_hit_unknown_returns_true(id, level) ==
    /\ Idle
    /\ Tick
    /\ last' = Done("TP_HIT", id, level, "none", FALSE, "none", TRUE)
    /\ UNCHANGED <<aux, telegram, ledger, guards, failed_messages, threads,
                   dispatched, granted>>

\* handle_tp_hit with any other level: `return False`.
handle_tp_hit_unknown(id, level) ==
    /\ Idle
    /\ Tick
    /\ last' = Done("TP_HIT", id, level, "none", FALSE, "none", FALSE)
    /\ UNCHANGED <<aux, telegram, ledger, guards, failed_messages, threads,
                   dispatched, granted>>

\* handle_sl_hit, run without interruption.
handle_sl_hit(id) ==
    /\ Idle
    /\ Tick
    /\ Len(failed_messages) < MaxBacklog
    /\ \E result \in BOOLEAN :
         /\ should_send_sl(id, result)
         /\ IF ~result
            THEN /\ UNCHANGED <<trades, active_trades, closed_trades,
                                failed_messages, dispatched, granted>>
                 /\ last' = Done("SL_HIT", id, "SL", "false", FALSE, "none", TRUE)
            ELSE /\ granted' = granted \cup {<<id, "SL">>}
                 /\ update_trade_sl(id)
                 /\ IF telegram
                    THEN \E success \in SendResults :
                           /\ send_sl_hit(id, success)
                           /\ Dispatch(ActiveObj(id), "SL")
                           /\ last' = Done("SL_HIT", id, "SL", "true", TRUE,
                                           SendOutcome(success), success)
                    ELSE /\ UNCHANGED <<failed_messages, dispatched>>
                         /\ last' = Done("SL_HIT", id, "SL", "true", TRUE,
                                         "none", TRUE)
    /\ UNCHANGED <<aux, telegram, daily_trades, weekly_trades, threads>>

\* process_webhook with an event that is none of the three kinds.
process_webhook_unknown ==
    /\ Idle
    /\ Tick
    /\ last' = Done("UNKNOWN", "", "", "none", FALSE, "none", FALSE)
    /\ UNCHANGED <<aux, telegram, ledger, guards, failed_messages, threads,
                   dispatched, granted>>

\* The scheduler's jobs.  TradingBot.send_daily_summary:
bot_send_daily_summary ==
    /\ Tick
    /\ IF telegram
       THEN \E success \in SendResults :
              /\ send_daily_summary(success)
              /\ last' = Done("DAILY", "", "", "none", FALSE,
                              SendOutcome(success), success)
       ELSE /\ UNCHANGED failed_messages
            /\ last' = Done("DAILY", "", "", "none", FALSE, "none", TRUE)
    /\ reset_daily
    /\ UNCHANGED <<aux, telegram, trades, active_trades, closed_trades,
                   weekly_trades, guards, threads, dispatched, granted>>

\* TradingBot.send_weekly_summary:
bot_send_weekly_summary ==
    /\ Tick
    /\ IF telegram
       THEN \E success \in SendResults :
              /\ send_weekly_summary(success)
              /\ last' = Done("WEEKLY", "", "", "none", FALSE,
                              SendOutcome(success), success)
       ELSE /\ UNCHANGED failed_messages
            /\ last' = Done("WEEKLY", "", "", "none", FALSE, "none", TRUE)
    /\ reset_weekly
    /\ granted' = {}
    /\ UNCHANGED <<aux, telegram, trades, active_trades, closed_trades,
                   daily_trades, threads, dispatched>>

\* TradingBot.retry_failed_messages:
bot_retry_failed_messages ==
    /\ Tick
    /\ telegram
    /\ failed_messages # <<>>
    /\ \E results \in [1..Len(failed_messages) -> SendResults] :
         retry_failed_messages(results)
    /\ last' = Done("RETRY", "", "", "none", FALSE, "none", TRUE)
    /\ UNCHANGED <<aux, telegram, ledger, guards, threads, dispatched, granted>>

\* ---------------------------------------------------------- specification
Init ==
    /\ telegram \in BOOLEAN
    /\ trades = <<>>
    /\ active_trades = <<>>
    /\ closed_trades = <<>>
    /\ daily_trades = <<>>
    /\ weekly_trades = <<>>
    /\ tp1_sent = {}
    /\ tp2_sent = {}
    /\ tp3_sent = {}
    /\ sl_sent = {}
    /\ failed_messages = <<>>
    /\ pc = [t \in Threads |-> "idle"]
    /\ req = [t \in Threads |-> NoEvent]
    /\ last = NoLast
    /\ dispatched = {}
    /\ granted = {}
    /\ steps = 0
    /\ sm = NoCall
    /\ flush = NoFlush
    /\ delivered = <<>>
    /\ enqueued = {}
    /\ stats = NoStats
    /\ job = NoJob

\* Events handled one at a time, interleaved with the scheduler's jobs.
Next ==
    \/ \E id \in Ids, symbol \in Symbols : handle_new_trade(id, symbol)
    \/ \E id \in Ids, level \in TpLevels : handle_tp_hit(id, level)
    \/ \E id \in Ids, level \in BadLevels : handle_tp_hit_unknown(id, level)
    \/ \E id \in Ids : handle_sl_hit(id)
    \/ process_webhook_unknown
    \/ bot_send_daily_summary
    \/ bot_send_weekly_summary
    \/ bot_retry_failed_messages

Spec == Init /\ [][Next]_vars

\* ------------------------------------------------ concurrent request threads
\* The web server handles each request in a thread of its own, so the
\* statements of two handlers interleave.  A thread's handler is cut where
\* another thread can run between two accesses to the shared sets: the
\* membership test and the insertion of should_send_*, update_trade_*, and
\* the notification.
Event(kind, id, level) == [kind |-> kind, id |-> id, level |-> level, obj |-> 0]

begin_tp_hit(t, id, level) ==
    /\ pc[t] = "idle"
    /\ Begin
    /\ Len(failed_messages) < MaxBacklog
    /\ req' = [req EXCEPT ![t] = Event("TP_HIT", id, level)]
    /\ pc' = [pc EXCEPT ![t] = "should_test"]
    /\ UNCHANGED <<aux, telegram, ledger, guards, failed_messages, last,
                   dispatched, granted>>

begin_sl_hit(t, id) ==
    /\ pc[t] = "idle"
    /\ Begin
    /\ Len(failed_messages) < MaxBacklog
    /\ req' = [req EXCEPT ![t] = Event("SL_HIT", id, "SL")]
    /\ pc' = [pc EXCEPT ![t] = "should_test"]
    /\ UNCHANGED <<aux, telegram, ledger, guards, failed_messages, last,
                   dispatched, granted>>

\* `if trade_id in self.<level>_sent: return False`, on which the handler
\* returns True.
step_should_test(t) ==
    /\ pc[t] = "should_test"
    /\ IF should_send_test(req[t].level, req[t].id)
       THEN /\ pc' = [pc EXCEPT ![t] = "idle"]
            /\ req' = [req EXCEPT ![t] = NoEvent]
            /\ last' = Done(req[t].kind, req[t].id, req[t].level, "false",
                            FALSE, "none", TRUE)
       ELSE /\ pc' = [pc EXCEPT ![t] = "should_add"]
            /\ UNCHANGED <<req, last>>
    /\ UNCHANGED <<aux, telegram, ledger, guards, failed_messages, dispatched,
                   granted, steps>>

\* `self.<level>_sent.add(trade_id); return True`
step_should_add(t) ==
    /\ pc[t] = "should_add"
    /\ should_send_add(req[t].level, req[t].id)
    /\ granted' = granted \cup {<<req[t].id, req[t].level>>}
    /\ pc' = [pc EXCEPT ![t] = "update"]
    /\ UNCHANGED <<aux, telegram, ledger, failed_messages, req, last, dispatched,
                   steps>>

step_update(t) ==
    /\ pc[t] = "update"
    /\ IF req[t].kind = "TP_HIT"
       THEN update_trade_tp(req[t].id, req[t].level)
       ELSE update_trade_sl(req[t].id)
    /\ pc' = [pc EXCEPT ![t] = "notify"]
    /\ req' = [req EXCEPT ![t].obj = ActiveObj(req[t].id)]
    /\ UNCHANGED <<aux, telegram, daily_trades, weekly_trades, guards,
                   failed_messages, last, dispatched, granted, steps>>

step_notify(t) ==
    /\ pc[t] = "notify"
    /\ IF telegram
       THEN \E success \in SendResults :
              /\ IF req[t].kind = "TP_HIT"
                 THEN send_tp_hit(req[t].id, req[t].level, success)
                 ELSE send_sl_hit(req[t].id, success)
              /\ Dispatch(req[t].obj, req[t].level)
              /\ last' = Done(req[t].kind, req[t].id, req[t].level, "true",
                              TRUE, SendOutcome(success), success)
       ELSE /\ UNCHANGED <<failed_messages, dispatched>>
            /\ last' = Done(req[t].kind, req[t].id, req[t].level, "true",
                            TRUE, "none", TRUE)
    /\ pc' = [pc EXCEPT ![t] = "idle"]
    /\ req' = [req EXCEPT ![t] = NoEvent]
    /\ UNCHANGED <<aux, telegram, ledger, guards, granted, steps>>

\* handle_new_trade on a request thread.
thread_new_trade(t, id, symbol) ==
    /\ pc[t] = "idle"
    /\ Begin
    /\ new_trade(id, symbol)

NextConc ==
    \/ \E t \in Threads, id \in Ids, symbol \in Symbols :
         thread_new_trade(t, id, symbol)
    \/ \E t \in Threads, id \in Ids, level \in TpLevels :
         begin_tp_hit(t, id, level)
    \/ \E t \in Threads, id \in Ids : begin_sl_hit(t, id)
    \/ \E t \in Threads : step_should_test(t)
    \/ \E t \in Threads : step_should_add(t)
    \/ \E t \in Threads : step_update(t)
    \/ \E t \in Threads : step_notify(t)
    \/ bot_send_daily_summary
    \/ bot_send_weekly_summary
    \/ bot_retry_failed_messages

SpecConc == Init /\ [][NextConc]_vars

\* ------------------------------------- update_trade_* statement by statement
\* update_trade_tp, update_trade_sl and close_trade hold no lock either, so
\* two request threads interleave between any two of their statements.  A
\* thread that has been granted by should_send_* goes through: the membership
\* test, the fetch of the trade object (req[t].obj), the test of its
\* *_notified flag, the assignments to its fields one by one, and for TP3
\* and SL the membership test, the pop and the append of close_trade.
\* A KeyError is caught by the handler's `except Exception`, which returns
\* False: it is recorded in last with send = "raised".
WritePcs == <<"write1", "write2", "write3", "write4", "write5">>

\* The assignments of the branch of update_trade_tp / update_trade_sl for a
\* level, in the order of the source.
Writes(level) ==
    CASE level = "TP1" -> << <<"tp1_hit", TRUE>>, <<"tp1_notified", TRUE>>,
                             <<"profit_r", 15>> >>
      [] level = "TP2" -> << <<"tp2_hit", TRUE>>, <<"tp2_notified", TRUE>>,
                             <<"profit_r", 25>> >>
      [] level = "TP3" -> << <<"tp3_hit", TRUE>>, <<"tp3_notified", TRUE>>,
                             <<"final_result", "TP3">>, <<"profit_r", 40>>,
                             <<"closed", TRUE>> >>
      [] level = "SL" -> << <<"sl_hit", TRUE>>, <<"sl_notified", TRUE>>,
                            <<"final_result", "SL">>, <<"profit_r", -10>>,
                            <<"closed", TRUE>> >>

Raised(t) ==
    /\ pc' = [pc EXCEPT ![t] = "idle"]
    /\ req' = [req EXCEPT ![t] = NoEvent]
    /\ last' = Done(req[t].kind, req[t].id, req[t].level, "true", TRUE,
                    "raised", FALSE)

raceFrame ==
    <<aux, telegram, daily_trades, weekly_trades, guards, failed_messages,
      dispatched, granted, steps>>

\* `if trade_id not in self.active_trades: return`
upd_lookup(t) ==
    /\ pc[t] = "update"
    /\ pc' = [pc EXCEPT ![t] = IF req[t].id \in DOMAIN active_trades
                               THEN "fetch" ELSE "notify"]
    /\ UNCHANGED <<raceFrame, trades, active_trades, closed_trades, req, last>>

\* `trade = self.active_trades[trade_id]`
upd_fetch(t) ==
    /\ pc[t] = "fetch"
    /\ IF req[t].id \in DOMAIN active_trades
       THEN /\ req' = [req EXCEPT ![t].obj = active_trades[req[t].id]]
            /\ pc' = [pc EXCEPT ![t] = "flag"]
            /\ UNCHANGED last
       ELSE Raised(t)
    /\ UNCHANGED <<raceFrame, trades, active_trades, closed_trades>>

\* `if level == "TP3" and not trade.tp3_notified:`, `if not trade.sl_notified:`
upd_flag(t) ==
    /\ pc[t] = "flag"
    /\ pc' = [pc EXCEPT ![t] =
                IF trades[req[t].obj][Writes(req[t].level)[2][1]]
                THEN "notify" ELSE "write1"]
    /\ UNCHANGED <<raceFrame, trades, active_trades, closed_trades, req, last>>

\* The k-th assignment of the branch; after the last one, close_trade for
\* TP3 and SL.
upd_write(t, k) ==
    /\ pc[t] = WritePcs[k]
    /\ LET w == Writes(req[t].level) IN
       /\ trades' = [trades EXCEPT ![req[t].obj][w[k][1]] = w[k][2]]
       /\ pc' = [pc EXCEPT ![t] =
                   IF k < Len(w) THEN WritePcs[k + 1]
                   ELSE IF req[t].level \in {"TP3", "SL"} THEN "close_test"
                   ELSE "notify"]
    /\ UNCHANGED <<raceFrame, active_trades, closed_trades, req, last>>

\* close_trade: `if trade_id in self.active_trades:`
close_test(t) ==
    /\ pc[t] = "close_test"
    /\ pc' = [pc EXCEPT ![t] = IF req[t].id \in DOMAIN active_trades
                               THEN "close_pop" ELSE "notify"]
    /\ UNCHANGED <<raceFrame, trades, active_trades, closed_trades, req, last>>

\* close_trade: `trade = self.active_trades.pop(trade_id)`
close_pop(t) ==
    /\ pc[t] = "close_pop"
    /\ IF req[t].id \in DOMAIN active_trades
       THEN /\ req' = [req EXCEPT ![t].obj = active_trades[req[t].id]]
            /\ active_trades' = [k \in DOMAIN active_trades \ {req[t].id} |->
                                    active_trades[k]]
            /\ pc' = [pc EXCEPT ![t] = "close_append"]
            /\ UNCHANGED last
       ELSE Raised(t) /\ UNCHANGED active_trades
    /\ UNCHANGED <<raceFrame, trades, closed_trades>>

\* close_trade: `self.closed_trades.append(trade)`
close_append(t) ==
    /\ pc[t] = "close_append"
    /\ closed_trades' = Append(closed_trades, req[t].obj)
    /\ pc' = [pc EXCEPT ![t] = "notify"]
    /\ UNCHANGED <<raceFrame, trades, active_trades, req, last>>

\* The ledger after NEW_TRADE X1, TP1 and TP2 applied to the trade or not.
InitRace ==
    /\ telegram \in BOOLEAN
    /\ \E t1, t2 \in BOOLEAN :
          /\ trades = << [Trade("X1", "XAUUSD") EXCEPT
                             !.tp1_hit = t1, !.tp1_notified = t1,
                             !.tp2_hit = t2, !.tp2_notified = t2,
                             !.profit_r = IF t2 THEN 25 ELSE IF t1 THEN 15
                                          ELSE 0] >>
          /\ tp1_sent = IF t1 THEN {"X1"} ELSE {}
          /\ tp2_sent = IF t2 THEN {"X1"} ELSE {}
          /\ granted = {<<"X1", level>> : level \in
                           {l \in {"TP1", "TP2"} : IF l = "TP1" THEN t1 ELSE t2}}
    /\ active_trades = [id \in {"X1"} |-> 1]
    /\ closed_trades = <<>>
    /\ daily_trades = <<1>>
    /\ weekly_trades = <<1>>
    /\ tp3_sent = {}
    /\ sl_sent = {}
    /\ failed_messages = <<>>
    /\ pc = [t \in Threads |-> "idle"]
    /\ req = [t \in Threads |-> NoEvent]
    /\ last = NoLast
    /\ dispatched = {}
    /\ steps = 0
    /\ sm = NoCall
    /\ flush = NoFlush
    /\ delivered = <<>>
    /\ enqueued = {}
    /\ stats = NoStats
    /\ job = NoJob

\* TP3 and SL events for the trade X1, each on a request thread.
NextRace ==
    \/ \E t \in Threads : begin_tp_hit(t, "X1", "TP3")
    \/ \E t \in Threads : begin_sl_hit(t, "X1")
    \/ \E t \in Threads : step_should_test(t)
    \/ \E t \in Threads : step_should_add(t)
    \/ \E t \in Threads : upd_lookup(t)
    \/ \E t \in Threads : upd_fetch(t)
    \/ \E t \in Threads : upd_flag(t)
    \/ \E t \in Threads, k \in 1..Len(WritePcs) : upd_write(t, k)
    \/ \E t \in Threads : close_test(t)
    \/ \E t \in Threads : close_pop(t)
    \/ \E t \in Threads : close_append(t)
    \/ \E t \in Threads : step_notify(t)

SpecRace == InitRace /\ [][NextRace]_vars

\* The same two requests with a NEW_TRADE for the same id handled on a
\* third request's thread, add_trade replacing the entry of active_trades.
NextRaceReg ==
    \/ NextRace
    \/ \E t \in Threads : thread_new_trade(t, "X1", "XAUUSD")

SpecRaceReg == InitRace /\ [][NextRaceReg]_vars

\* ------------------------------------------------- send_message on its own
\* What the Telegram API answers to each request of one send_message call,
\* one answer more than the call may ask for.
TransportTapes == [1..max_retries + 1 -> Outcomes]

\* The state of everything but the call: a bot with a notifier, no trades.
Quiet ==
    /\ telegram = TRUE
    /\ trades = <<>>
    /\ active_trades = <<>>
    /\ closed_trades = <<>>
    /\ daily_trades = <<>>
    /\ weekly_trades = <<>>
    /\ tp1_sent = {} /\ tp2_sent = {} /\ tp3_sent = {} /\ sl_sent = {}
    /\ pc = [t \in Threads |-> "idle"]
    /\ req = [t \in Threads |-> NoEvent]
    /\ last = NoLast
    /\ dispatched = {}
    /\ granted = {}
    /\ steps = 0

InitSend ==
    /\ Quiet
    /\ failed_messages = <<>>
    /\ \E outs \in TransportTapes :
           sm = [pc |-> "call", outs |-> outs, ok |-> FALSE, calls |-> 0]
    /\ flush = NoFlush
    /\ delivered = <<>>
    /\ enqueued = {}
    /\ stats = NoStats
    /\ job = NoJob

\* One call of send_message against the transport of sm.outs, run to its
\* return: sm.ok is the value returned, sm.calls the requests.post calls made.
call_send_message ==
    /\ sm.pc = "call"
    /\ LET r == send_message(sm.outs)
       IN sm' = [sm EXCEPT !.pc = "returned", !.ok = r.ok, !.calls = r.calls]
    /\ UNCHANGED <<telegram, ledger, guards, failed_messages, threads, last,
                   dispatched, granted, steps, flush, delivered, enqueued,
                   stats, job>>

NextSend == call_send_message

SpecSend == InitSend /\ [][NextSend]_vars

\* ------------------------------------------- retry_failed_messages in steps
\* The retry job statement by statement, as the scheduler's thread runs it
\* next to the request threads: flush.retry_queue is its local retry_queue,
\* flush.k the position of its `for`, flush.results what send_message
\* returned for the entries so far, flush.base the length of `delivered` when
\* it started.
QueueMessages ==
    {Message("NEW_TRADE", "X1"), Message("TP1", "X1"), Message("SL", "X1")}

\* The messages a handler may append while the job runs.
LateMessages == {Message("TP2", "X2"), Message("SL", "X2")}

Backlogs == UNION {[1..n -> QueueMessages] : n \in 1..MaxQueue}

flushFrame ==
    <<telegram, ledger, guards, threads, last, dispatched, granted, steps,
      sm, stats, job>>

InitFlush ==
    /\ Quiet
    /\ failed_messages \in Backlogs
    /\ sm = NoCall
    /\ flush = [pc |-> "idle", retry_queue |-> <<>>, k |-> 0,
                results |-> <<>>, base |-> 0]
    /\ delivered = <<>>
    /\ enqueued = {}
    /\ stats = NoStats
    /\ job = NoJob

\* TradingBot.retry_failed_messages and the test at the head of the
\* notifier's: the job goes on only with a notifier and a non-empty list.
flush_check ==
    /\ flush.pc \in {"idle", "done"}
    /\ telegram
    /\ failed_messages # <<>>
    /\ flush' = [pc |-> "copy", retry_queue |-> <<>>, k |-> 0,
                 results |-> <<>>, base |-> Len(delivered)]
    /\ UNCHANGED <<flushFrame, failed_messages, delivered, enqueued>>

\* retry_queue = self.failed_messages.copy()
flush_copy ==
    /\ flush.pc = "copy"
    /\ flush' = [flush EXCEPT !.pc = "clear", !.retry_queue = failed_messages]
    /\ UNCHANGED <<flushFrame, failed_messages, delivered, enqueued>>

\* self.failed_messages.clear()
flush_clear ==
    /\ flush.pc = "clear"
    /\ failed_messages' = <<>>
    /\ flush' = [flush EXCEPT !.pc = "send", !.k = 1]
    /\ UNCHANGED <<flushFrame, delivered, enqueued>>

\* One turn of the loop that forgets the entry whose send failed.
flush_send_drop_failed ==
    /\ flush.pc = "send"
    /\ flush.k <= Len(flush.retry_queue)
    /\ \E success \in SendResults :
           /\ flush' = [flush EXCEPT !.k = flush.k + 1,
                                     !.results = Append(flush.results, success)]
           /\ delivered' = IF success
                           THEN Append(delivered, flush.retry_queue[flush.k])
                           ELSE delivered
    /\ UNCHANGED <<flushFrame, failed_messages, enqueued>>

\* One turn of `for message_data in retry_queue`: send_message, and the
\* append to failed_messages when it returned False.
flush_send ==
    /\ flush.pc = "send"
    /\ flush.k <= Len(flush.retry_queue)
    /\ \E success \in SendResults :
           /\ flush' = [flush EXCEPT !.k = flush.k + 1,
                                     !.results = Append(flush.results, success)]
           /\ IF success
              THEN /\ delivered' = Append(delivered, flush.retry_queue[flush.k])
                   /\ UNCHANGED failed_messages
              ELSE /\ failed_messages' =
                          Append(failed_messages, flush.retry_queue[flush.k])
                   /\ UNCHANGED delivered
    /\ UNCHANGED <<flushFrame, enqueued>>

\* The loop is over: retry_failed_messages returns.
flush_return ==
    /\ flush.pc = "send"
    /\ flush.k > Len(flush.retry_queue)
    /\ flush' = [flush EXCEPT !.pc = "done"]
    /\ UNCHANGED <<flushFrame, failed_messages, delivered, enqueued>>

NextFlush ==
    \/ flush_check
    \/ flush_copy
    \/ flush_clear
    \/ flush_send
    \/ flush_return

\* The retry job with no other thread touching failed_messages.
SpecFlush == InitFlush /\ [][NextFlush]_vars

\* A request thread whose send_message returned False appends its message:
\* self.failed_messages.append({...}) in send_new_trade_signal, send_tp_hit
\* and send_sl_hit. Each message of LateMessages is appended once.
handler_enqueue(m) ==
    /\ m \notin enqueued
    /\ failed_messages' = Append(failed_messages, m)
    /\ enqueued' = enqueued \cup {m}
    /\ UNCHANGED <<flushFrame, flush, delivered>>

NextFlushConc ==
    \/ NextFlush
    \/ \E m \in LateMessages : handler_enqueue(m)

\* The retry job on the scheduler's thread with handlers appending on theirs.
SpecFlushConc == InitFlush /\ [][NextFlushConc]_vars

\* The scheduler fires the retry job every five minutes for as long as the
\* process lives, and a started run goes on to its return: the job's steps
\* are taken whenever they stay possible.
SpecFlushFair == InitFlush /\ [][NextFlush]_vars /\ WF_vars(NextFlush)

\* The same scheduling with handlers appending on their threads.
SpecFlushConcFair ==
    InitFlush /\ [][NextFlushConc]_vars /\ WF_vars(NextFlush)

\* ------------------------------------------------ the statistics on their own
\* A trade as the handlers can have left it: registered, after TP1, after
\* TP1 and TP2, closed by TP3 after both, closed by SL with or without TP1.
StatsShapes == {"new", "tp1", "tp2", "TP3", "SL", "tp1_SL"}

ShapedTrade(id, shape) ==
    LET t1 == shape \in {"tp1", "tp2", "TP3", "tp1_SL"}
        t2 == shape \in {"tp2", "TP3"}
        t3 == shape = "TP3"
        sl == shape \in {"SL", "tp1_SL"}
    IN [Trade(id, "XAUUSD") EXCEPT
           !.tp1_hit = t1, !.tp1_notified = t1,
           !.tp2_hit = t2, !.tp2_notified = t2,
           !.tp3_hit = t3, !.tp3_notified = t3,
           !.sl_hit = sl, !.sl_notified = sl,
           !.closed = t3 \/ sl,
           !.final_result = IF t3 THEN "TP3" ELSE IF sl THEN "SL" ELSE "ACTIVE",
           !.profit_r = IF t3 THEN 40 ELSE IF sl THEN -10
                        ELSE IF t2 THEN 25 ELSE IF t1 THEN 15 ELSE 0]

StatsTrades == {ShapedTrade(id, shape) : id \in Ids, shape \in StatsShapes}

\* Heaps the handlers can build in one week: registrations in heap order,
\* each (id, level) applied to at most one trade.
StatsHeaps ==
    {h \in UNION {[1..n -> StatsTrades] : n \in 0..MaxWindow} :
        \A o1, o2 \in DOMAIN h :
            (o1 # o2 /\ h[o1].id = h[o2].id)
                => \A level \in Levels : ~(LevelHit(h[o1], level)
                                              /\ LevelHit(h[o2], level))}

\* The heap index add_trade stored last under the id.
LatestOf(h, id) ==
    CHOOSE o \in DOMAIN h :
        h[o].id = id /\ \A o2 \in DOMAIN h : h[o2].id = id => o2 <= o

\* The ledger after the trades of h, the daily window reset after the first
\* `since` registrations.
InitStats ==
    /\ \E h \in StatsHeaps : \E since \in 0..Len(h) :
          /\ trades = h
          /\ weekly_trades = [i \in 1..Len(h) |-> i]
          /\ daily_trades = [i \in 1..(Len(h) - since) |-> since + i]
          /\ closed_trades = SelectSeq([i \in 1..Len(h) |-> i],
                                       LAMBDA o : h[o].closed)
          /\ active_trades =
                [id \in {h[o].id : o \in {o2 \in DOMAIN h :
                                             ~h[LatestOf(h, h[o2].id)].closed}}
                    |-> LatestOf(h, id)]
          /\ tp1_sent = {h[o].id : o \in {o2 \in DOMAIN h : h[o2].tp1_hit}}
          /\ tp2_sent = {h[o].id : o \in {o2 \in DOMAIN h : h[o2].tp2_hit}}
          /\ tp3_sent = {h[o].id : o \in {o2 \in DOMAIN h : h[o2].tp3_hit}}
          /\ sl_sent = {h[o].id : o \in {o2 \in DOMAIN h : h[o2].sl_hit}}
    /\ telegram = TRUE
    /\ failed_messages = <<>>
    /\ pc = [t \in Threads |-> "idle"]
    /\ req = [t \in Threads |-> NoEvent]
    /\ last = NoLast
    /\ dispatched = {}
    /\ granted = {}
    /\ steps = 0
    /\ sm = NoCall
    /\ flush = NoFlush
    /\ delivered = <<>>
    /\ enqueued = {}
    /\ stats = NoStats
    /\ job = NoJob

statsFrame ==
    <<telegram, ledger, guards, failed_messages, threads, last, dispatched,
      granted, steps, sm, flush, delivered, enqueued, job>>

\* A caller (the summary job, GET /stats/daily) asks for the daily figures.
call_get_daily_stats ==
    /\ stats' = [call |-> "daily", ret |-> get_daily_stats]
    /\ UNCHANGED statsFrame

call_get_weekly_stats ==
    /\ stats' = [call |-> "weekly", ret |-> get_weekly_stats]
    /\ UNCHANGED statsFrame

NextStats == call_get_daily_stats \/ call_get_weekly_stats

SpecStats == InitStats /\ [][NextStats]_vars

\* ---------------------------------------------------- summary jobs in steps
\* TradingBot.send_daily_summary and send_weekly_summary statement by
\* statement, each on a thread of the scheduler, next to the webhook
\* handlers: job[kind].stats is the job's local `stats`, gone when the job
\* returns, job[kind].sent whether the last run handed its message to
\* send_message and with what outcome.
jobFrame ==
    <<telegram, trades, active_trades, closed_trades, guards, threads, last,
      dispatched, granted, steps, sm, flush, delivered, enqueued, stats>>

\* stats = self.tracker.get_daily_stats()  (get_weekly_stats)
job_compute(kind) ==
    /\ job[kind].pc = "idle"
    /\ job' = [job EXCEPT ![kind] =
                  [pc |-> "send",
                   stats |-> IF kind = "daily" THEN get_daily_stats
                             ELSE get_weekly_stats,
                   sent |-> "none"]]
    /\ UNCHANGED <<jobFrame, daily_trades, weekly_trades, failed_messages>>

\* A job that returns when its summary could not be delivered.
job_send_return_on_failure(kind) ==
    /\ job[kind].pc = "send"
    /\ IF telegram
       THEN \E success \in SendResults :
              /\ IF kind = "daily" THEN send_daily_summary(success)
                 ELSE send_weekly_summary(success)
              /\ job' = [job EXCEPT ![kind].pc = IF success THEN "reset"
                                                 ELSE "idle",
                                    ![kind].sent = SendOutcome(success)]
       ELSE /\ UNCHANGED failed_messages
            /\ job' = [job EXCEPT ![kind].pc = "reset"]
    /\ UNCHANGED <<jobFrame, daily_trades, weekly_trades>>

\* if self.telegram: self.telegram.send_daily_summary(stats)
job_send(kind) ==
    /\ job[kind].pc = "send"
    /\ IF telegram
       THEN \E success \in SendResults :
              /\ IF kind = "daily" THEN send_daily_summary(success)
                 ELSE send_weekly_summary(success)
              /\ job' = [job EXCEPT ![kind].pc = "reset",
                                    ![kind].sent = SendOutcome(success)]
       ELSE /\ UNCHANGED failed_messages
            /\ job' = [job EXCEPT ![kind].pc = "reset"]
    /\ UNCHANGED <<jobFrame, daily_trades, weekly_trades>>

\* self.tracker.reset_daily()  (reset_weekly)
job_reset(kind) ==
    /\ job[kind].pc = "reset"
    /\ IF kind = "daily"
       THEN reset_daily /\ UNCHANGED <<weekly_trades, guards, granted>>
       ELSE reset_weekly /\ granted' = {} /\ UNCHANGED daily_trades
    /\ job' = [job EXCEPT ![kind].pc = "idle", ![kind].stats = None]
    /\ UNCHANGED <<telegram, trades, active_trades, closed_trades, threads,
                   last, dispatched, steps, sm, flush, delivered, enqueued,
                   stats, failed_messages>>

\* The webhooks handled while the jobs run, at most MaxJobRequests of them.
job_webhook ==
    /\ steps < MaxJobRequests
    /\ \/ \E id \in Ids, symbol \in Symbols : handle_new_trade(id, symbol)
       \/ \E id \in Ids, level \in TpLevels : handle_tp_hit(id, level)
       \/ \E id \in Ids : handle_sl_hit(id)

NextJobs ==
    \/ job_webhook
    \/ \E kind \in JobKinds : job_compute(kind)
    \/ \E kind \in JobKinds : job_send(kind)
    \/ \E kind \in JobKinds : job_reset(kind)

\* The handlers with the two summary jobs running in steps beside them.
SpecJobs == Init /\ [][NextJobs]_vars

\* ------------------------------------------------------------ properties
Objs == 1..Len(trades)

\* This step completes a TP_HIT (level TP1..TP3) or SL_HIT handler, whose
\* event is then in last'.
LevelEventDone ==
    /\ last'.kind \in {"TP_HIT", "SL_HIT"}
    /\ last'.level \in Levels
    /\ \/ steps' # steps /\ pc' = pc
       \/ \E t \in Threads : pc[t] # "idle" /\ pc'[t] = "idle"

\* This step completes a handle_new_trade.
NewTradeDone == steps' # steps /\ pc' = pc /\ last'.kind = "NEW_TRADE"

\* C1: two TP_HIT (or SL_HIT) events for the same trade id and level handled
\* by two threads, the steps of should_send_* interleaved: should_send_* does
\* not return True for an (id, level) for which it has returned True since
\* the last weekly reset, so exactly one of the two calls returns True.
C1_OneTrueReturnUnderInterleaving ==
    [][\A t \in Threads :
         (pc[t] = "should_add" /\ pc'[t] = "update")
             => <<req[t].id, req[t].level>> \notin granted]_vars

\* C2: with handlers run one at a time, should_send_* for (id, level)
\* returns True exactly when it has not been asked for that pair since the
\* last weekly reset (or the start): True on the first invocation, False on
\* every later one, whatever registrations, level hits and daily resets
\* happened in between.
C2_ShouldNotifyOncePerWeek ==
    [][LevelEventDone =>
         ((last'.should = "true") <=> (<<last'.id, last'.level>> \notin granted))]_vars

\* C2 witness: a repeated TP1 event is refused after the trade was registered
\* and the daily window reset.
C2_Witness ==
    /\ last.kind = "TP_HIT" /\ last.level = "TP1" /\ last.should = "false"
    /\ last.id \in DOMAIN active_trades
    /\ trades[active_trades[last.id]].tp1_hit
    /\ daily_trades = <<>>

\* C3: the notification of a level of a trade is handed to send_message at
\* most once, over any run of events and scheduler jobs.
C3_DispatchAtMostOnce ==
    [][\A id \in Ids, level \in Levels :
         (/\ LevelEventDone
          /\ last'.id = id /\ last'.level = level /\ last'.send # "none"
          /\ ActiveObj(id) # 0)
             => <<ActiveObj(id), level>> \notin dispatched]_vars

C6_ClosedIffNotActive ==
    \A o \in Objs : trades[o].closed <=> (trades[o].final_result # "ACTIVE")

\* C6 witness: a closed and an open trade side by side.
C6_Witness ==
    \E o1, o2 \in Objs :
        /\ trades[o1].closed /\ trades[o1].final_result = "TP3"
        /\ ~trades[o2].closed /\ trades[o2].tp2_hit

\* C7: a TP_HIT or SL_HIT whose id is not in active_trades changes neither
\* the collections nor the dedup sets, and the handler returns True.
C7_UnknownTradeNoOp ==
    [][(LevelEventDone /\ last'.id \notin DOMAIN active_trades)
         => (UNCHANGED <<ledger, guards>> /\ last'.ret = TRUE)]_vars

\* C8: add_trade with an id already in active_trades maps the id to a new
\* trade with default state, leaving the old object as it was; and
\* update_trade_* mutates the object the id is mapped to and no other.
C8_ReRegisterOverwrites ==
    [][/\ (NewTradeDone /\ last'.id \in DOMAIN active_trades)
          => LET old == active_trades[last'.id]
                 new == active_trades'[last'.id] IN
             /\ new = Len(trades) + 1
             /\ new # old
             /\ trades'[new] = Trade(last'.id, trades'[new].symbol)
             /\ trades'[old] = trades[old]
       /\ (LevelEventDone /\ last'.applied /\ last'.id \in DOMAIN active_trades)
          => LET cur == active_trades[last'.id] IN
             /\ LevelHit(trades'[cur], last'.level)
             /\ \A o \in Objs \ {cur} : trades'[o] = trades[o]]_vars

\* C8 witness: TP2 hit the first trade of an id, the id was registered again,
\* and TP1 then hit the second trade only.
C8_Witness ==
    /\ Len(trades) = 2
    /\ trades[1].id = trades[2].id
    /\ trades[1].tp2_hit /\ ~trades[1].tp1_hit /\ ~trades[1].closed
    /\ trades[2].tp1_hit /\ ~trades[2].tp2_hit
    /\ active_trades[trades[2].id] = 2

\* C9: an SL_HIT that follows the NEW_TRADE of its id closes the trade with
\* final_result SL and profit_r -1.0, in closed_trades and out of
\* active_trades; a TP_HIT TP2 for the id that follows is a no-op: nothing of
\* the ledger, the dedup sets or the queue changes and nothing is sent.
C9_SlThenTp2NoOp ==
    [][/\ (/\ LevelEventDone /\ last'.kind = "SL_HIT"
           /\ last.kind = "NEW_TRADE" /\ last.id = last'.id)
          => LET o == active_trades[last'.id] IN
             /\ trades'[o].closed
             /\ trades'[o].final_result = "SL"
             /\ trades'[o].profit_r = -10
             /\ closed_trades' = Append(closed_trades, o)
             /\ last'.id \notin DOMAIN active_trades'
       /\ (/\ LevelEventDone /\ last'.kind = "TP_HIT" /\ last'.level = "TP2"
           /\ last.kind = "SL_HIT" /\ last.id = last'.id /\ last.applied
           /\ last.id \notin DOMAIN active_trades
           /\ closed_trades # <<>>
           /\ trades[closed_trades[Len(closed_trades)]].id = last.id
           /\ trades[closed_trades[Len(closed_trades)]].final_result = "SL")
          => /\ UNCHANGED <<ledger, guards, failed_messages>>
             /\ last'.send = "none"]_vars

\* C10: the first TP_HIT of a level for a registered trade (the event that
\* follows the trade's NEW_TRADE) hands one notification to send_message when
\* a notifier is configured, sets the level's hit flag and, for TP1 and TP2,
\* leaves the trade open; a TP_HIT or SL_HIT for an (id, level) already
\* granted since the last weekly reset returns True, sends nothing and
\* changes neither the trades nor the queue.
C10_FirstNotifiesDuplicateDropped ==
    [][/\ (/\ LevelEventDone /\ last'.kind = "TP_HIT"
           /\ last.kind = "NEW_TRADE" /\ last.id = last'.id)
          => LET o == active_trades[last'.id] IN
             /\ telegram => last'.send # "none"
             /\ LevelHit(trades'[o], last'.level)
             /\ last'.level \in {"TP1", "TP2"}
                  => (~trades'[o].closed /\ active_trades'[last'.id] = o)
       /\ (LevelEventDone /\ <<last'.id, last'.level>> \in granted)
          => /\ last'.ret = TRUE
             /\ last'.send = "none"
             /\ UNCHANGED <<ledger, failed_messages>>]_vars


\* The attempts of the returned call that asked the transport.
Asked == 1..sm.calls

\* C13: for every sequence of transport outcomes send_message returns after
\* at most max_retries transport calls, and a transport that always answers
\* 429 makes it give up and return False, a 429 using up an attempt too.
C13_SendTerminatesWithinMaxRetries ==
    sm.pc = "returned"
        => /\ sm.calls \in 1..max_retries
           /\ (\A k \in Asked : sm.outs[k] = "throttled")
                  => (~sm.ok /\ sm.calls = max_retries)

C13_Witness ==
    /\ sm.pc = "returned"
    /\ \A k \in 1..max_retries : sm.outs[k] = "throttled"
    /\ ~sm.ok
    /\ sm.calls = max_retries

\* C14: send_message returns True exactly when one of the attempts it may
\* make got a success, the success being its last transport call, and it
\* returns False, all attempts used, when each of them failed or was
\* throttled.
C14_SendTrueIffAnAttemptSucceeded ==
    sm.pc = "returned"
        => /\ sm.ok <=> (\E k \in 1..max_retries : sm.outs[k] = "ok")
           /\ sm.ok => /\ sm.outs[sm.calls] = "ok"
                       /\ \A k \in 1..(sm.calls - 1) : sm.outs[k] # "ok"
           /\ ~sm.ok => sm.calls = max_retries

C14_Witness ==
    /\ sm.pc = "returned"
    /\ sm.ok
    /\ sm.calls = 2
    /\ sm.outs[1] \in {"error", "timeout", "connection"}
    /\ sm.outs[3] = "ok"


\* The entries of queue at the positions of where, in the order of queue.
Pick(queue, where) ==
    [j \in 1..Cardinality(where) |->
        queue[CHOOSE k \in where : Cardinality({i \in where : i <= k}) = j]]

\* C11: a run of retry_failed_messages with no other thread touching the
\* list: when it returns, send_message has been called once for every entry
\* of the snapshot, failed_messages holds exactly the entries for which it
\* returned False, in their order, and every other entry was delivered.
C11_FlushKeepsExactlyTheFailed ==
    flush.pc = "done"
        => LET queue == flush.retry_queue
               failed == {k \in 1..Len(queue) : ~flush.results[k]}
               sent == {k \in 1..Len(queue) : flush.results[k]}
           IN /\ Len(flush.results) = Len(queue)
              /\ failed_messages = Pick(queue, failed)
              /\ SubSeq(delivered, flush.base + 1, Len(delivered))
                     = Pick(queue, sent)

C11_Witness ==
    /\ flush.pc = "done"
    /\ Len(flush.retry_queue) = 3
    /\ flush.results = <<FALSE, TRUE, FALSE>>
    /\ failed_messages = <<flush.retry_queue[1], flush.retry_queue[3]>>
    /\ flush.retry_queue[1] # flush.retry_queue[3]

\* The snapshot entries the job has still to send.
Pending ==
    CASE flush.pc = "clear" -> 1..Len(flush.retry_queue)
      [] flush.pc = "send" -> flush.k..Len(flush.retry_queue)
      [] OTHER -> {}

\* C12: a message a handler appended to failed_messages while the retry job
\* was anywhere in its run is not lost: it is in failed_messages, or among
\* the snapshot entries still to be sent, or it has been delivered.
C12_AppendDuringFlushNotLost ==
    \A m \in enqueued :
        \/ \E i \in 1..Len(failed_messages) : failed_messages[i] = m
        \/ \E i \in Pending : flush.retry_queue[i] = m
        \/ \E i \in 1..Len(delivered) : delivered[i] = m


\* The message the operation recorded in a Done record gave to send_message.
MessageOf(done) ==
    CASE done.kind = "NEW_TRADE" -> Message("NEW_TRADE", done.id)
      [] done.kind = "TP_HIT" -> Message(done.level, done.id)
      [] done.kind = "SL_HIT" -> Message("SL", done.id)
      [] OTHER -> Message(done.kind, "")

\* C15: whenever send_message returned False for a message of a handler or
\* of a summary job (new trade, TP hit, SL hit, daily summary, weekly
\* summary), that message is in failed_messages afterwards.
C15_FailedSendIsQueued ==
    [][(steps' # steps /\ last'.send = "failed")
         => \E i \in 1..Len(failed_messages') :
                failed_messages'[i] = MessageOf(last')]_vars

\* C16: for every NEW_TRADE, TP_HIT and SL_HIT event whose change to the
\* ledger was applied, process_webhook returns True, whether the
\* notification was delivered or its send failed.
C16_AppliedEventReturnsSuccess ==
    [][((NewTradeDone \/ LevelEventDone) /\ trades' # trades)
         => last'.ret = TRUE]_vars


\* The window the last statistics call read.
StatsWindow == IF stats.call = "daily" THEN daily_trades ELSE weekly_trades

\* The positions of the window holding a closed trade.
ClosedAt == {i \in 1..Len(StatsWindow) : trades[StatsWindow[i]].closed}

\* The positions of the window holding a trade closed on a take-profit.
WonAt == {i \in ClosedAt : trades[StatsWindow[i]].final_result \in TpLevels}

RECURSIVE ProfitAt(_)
ProfitAt(where) ==
    IF where = {} THEN 0
    ELSE LET i == CHOOSE j \in where : TRUE
         IN trades[StatsWindow[i]].profit_r + ProfitAt(where \ {i})

\* C19: get_daily_stats / get_weekly_stats return None for an empty window;
\* for a window with signals and no closed trade only the signal count (and
\* a zero closed count) with an active count equal to it; and with N > 0
\* closed trades: total = closed + active, wins + losses = N, wins is the
\* number of trades closed on a TP, win_rate = 100 * wins / N and total_r is
\* the sum of the closed trades' profit_r.
C19_StatsOfWindow ==
    stats.call # "none"
        => LET ret == stats.ret
               N == Cardinality(ClosedAt)
           IN /\ StatsWindow = <<>> => ret = None
              /\ (StatsWindow # <<>> /\ N = 0)
                    => /\ DOMAIN ret = {"kind", "total_signals",
                                        "closed_trades", "active_trades"}
                       /\ ret.total_signals = Len(StatsWindow)
                       /\ ret.closed_trades = 0
                       /\ ret.active_trades = ret.total_signals
              /\ N > 0
                    => /\ ret.total_signals = Len(StatsWindow)
                       /\ ret.closed_trades = N
                       /\ ret.total_signals
                             = ret.closed_trades + ret.active_trades
                       /\ ret.wins + ret.losses = N
                       /\ ret.wins = Cardinality(WonAt)
                       /\ ret.win_rate.num = 100 * ret.wins
                       /\ ret.win_rate.den = N
                       /\ ret.total_r = ProfitAt(ClosedAt)

\* C19 witness: the daily figures of a window closed TP3, TP3, SL: two wins,
\* one loss, win rate 200/3, total 4.0 + 4.0 - 1.0 = 7.0 R.
C19_Witness ==
    /\ stats.call = "daily"
    /\ Len(daily_trades) = 3
    /\ trades[daily_trades[1]].final_result = "TP3"
    /\ trades[daily_trades[2]].final_result = "TP3"
    /\ trades[daily_trades[3]].final_result = "SL"
    /\ stats.ret.wins = 2
    /\ stats.ret.losses = 1
    /\ stats.ret.win_rate = [num |-> 200, den |-> 3]
    /\ stats.ret.total_r = 70


\* The window of a summary job and the statistics of that window.
JobWindow(kind) == IF kind = "daily" THEN daily_trades ELSE weekly_trades
JobStats(kind) == IF kind = "daily" THEN get_daily_stats ELSE get_weekly_stats

\* C17: a summary job computes the statistics of its window, then (with a
\* notifier) sends them, then resets the window, in that order: a run leaves
\* its start only with the statistics of the window as it is, leaves the
\* send only for the reset, the window untouched, whatever send_message
\* returned and also without a notifier, and returns only with the window
\* emptied; nothing stands in the way of the send and of the reset.
C17_ComputeSendResetEveryRun ==
    [][\A kind \in JobKinds :
         /\ (job[kind].pc = "idle" /\ job'[kind].pc # "idle")
               => /\ job'[kind].pc = "send"
                  /\ job'[kind].stats = JobStats(kind)
         /\ job[kind].pc = "send"
               => /\ ENABLED job_send(kind)
                  /\ job'[kind].pc # "send"
                        => /\ job'[kind].pc = "reset"
                           /\ job'[kind].stats = job[kind].stats
                           /\ JobWindow(kind)' = JobWindow(kind)
                           /\ job'[kind].sent = "none" <=> ~telegram
         /\ job[kind].pc = "reset"
               => /\ ENABLED job_reset(kind)
                  /\ job'[kind].pc # "reset"
                        => /\ job'[kind].pc = "idle"
                           /\ JobWindow(kind)' = <<>>]_vars

\* C17 witness: a daily job has run to its end with a trade in its window
\* and its summary undelivered, and the window is empty.
C17_Witness ==
    /\ job["daily"].pc = "idle"
    /\ job["daily"].sent = "failed"
    /\ daily_trades = <<>>
    /\ weekly_trades # <<>>
    /\ steps = 1


\* C18: reset_daily empties the daily window and leaves the weekly window,
\* active_trades, closed_trades, every trade's fields and the four sent
\* sets as they are; reset_weekly empties the weekly window and the four
\* sent sets and leaves the daily window, active_trades, closed_trades and
\* failed_messages as they are.
C18_ResetFrame ==
    [][/\ (job["daily"].pc = "reset" /\ job'["daily"].pc = "idle")
            => /\ daily_trades' = <<>>
               /\ UNCHANGED <<weekly_trades, active_trades, closed_trades,
                              trades, tp1_sent, tp2_sent, tp3_sent, sl_sent>>
       /\ (job["weekly"].pc = "reset" /\ job'["weekly"].pc = "idle")
            => /\ weekly_trades' = <<>>
               /\ tp1_sent' = {} /\ tp2_sent' = {}
               /\ tp3_sent' = {} /\ sl_sent' = {}
               /\ UNCHANGED <<daily_trades, active_trades, closed_trades,
                              failed_messages>>]_vars

\* C18 witness: the weekly job has reset after a NEW_TRADE and the SL_HIT
\* that closed it: the weekly window and sl_sent are empty, the daily
\* window and closed_trades still hold the trade.
C18_Witness ==
    /\ job["weekly"].pc = "idle"
    /\ job["weekly"].sent # "none"
    /\ weekly_trades = <<>>
    /\ sl_sent = {}
    /\ Len(daily_trades) = 1
    /\ closed_trades = daily_trades
    /\ trades[daily_trades[1]].sl_notified

Notified(tr, level) ==
    CASE level = "TP1" -> tr.tp1_notified
      [] level = "TP2" -> tr.tp2_notified
      [] level = "TP3" -> tr.tp3_notified
      [] level = "SL" -> tr.sl_notified

\* C20: a trade's tpN_notified / sl_notified flag only goes from False to
\* True, and a weekly reset clears the whole dedup state of the trades of
\* its window: after it neither the four sent sets nor any *_notified flag
\* of those trades records a notified (id, level).
C20_WeeklyResetClearsAllGuards ==
    [][/\ \A o \in Objs, level \in Levels :
             Notified(trades[o], level) => Notified(trades'[o], level)
       /\ (last'.kind = "WEEKLY" /\ steps' # steps)
            => /\ tp1_sent' = {} /\ tp2_sent' = {}
               /\ tp3_sent' = {} /\ sl_sent' = {}
               /\ \A i \in 1..Len(weekly_trades), level \in Levels :
                     ~Notified(trades'[weekly_trades[i]], level)]_vars


\* C21: a TP3 and an SL event for the same active trade handled by two
\* threads, the statements of update_trade_tp, update_trade_sl and
\* close_trade interleaved in any way: the trade gets into closed_trades
\* once, its final_result is assigned once and not overwritten by the other
\* event, and neither handler fails.
C21_ConcurrentCloseOnce ==
    [][/\ \A o \in Objs :
            trades[o].final_result # "ACTIVE"
                => trades'[o].final_result = trades[o].final_result
       /\ \A i, j \in 1..Len(closed_trades') :
            closed_trades'[i] = closed_trades'[j] => i = j
       /\ last'.send # "raised"]_vars


\* The other of the two intermediate levels.
OtherTp(level) == IF level = "TP1" THEN "TP2" ELSE "TP1"

\* C22: update_trade_tp for TP1 or TP2 on an active trade sets the level's
\* own hit flag whether or not the other level was applied before (TP2
\* before TP1 included), leaves the other level's flag as it is, and leaves
\* the trade in active_trades with closed False and final_result ACTIVE.
C22_Tp1Tp2EitherOrder ==
    [][(/\ LevelEventDone /\ last'.applied
        /\ last'.level \in {"TP1", "TP2"}
        /\ last'.id \in DOMAIN active_trades)
         => LET o == active_trades[last'.id] IN
            /\ LevelHit(trades'[o], last'.level)
            /\ LevelHit(trades'[o], OtherTp(last'.level))
                 = LevelHit(trades[o], OtherTp(last'.level))
            /\ last'.id \in DOMAIN active_trades'
            /\ active_trades'[last'.id] = o
            /\ ~trades'[o].closed
            /\ trades'[o].final_result = "ACTIVE"
            /\ closed_trades' = closed_trades]_vars

\* C22 witness: TP1 has just been applied to an active trade that TP2 had
\* been applied to before: both flags are set and the trade is open.
C22_Witness ==
    /\ last.kind = "TP_HIT" /\ last.level = "TP1" /\ last.applied
    /\ last.id \in DOMAIN active_trades
    /\ LET tr == trades[active_trades[last.id]] IN
       /\ tr.tp1_hit /\ tr.tp2_hit
       /\ tr.profit_r = 15
       /\ ~tr.closed /\ tr.final_result = "ACTIVE"


Count(seq, m) == Cardinality({i \in 1..Len(seq) : seq[i] = m})

\* How many copies of m are waiting: in the list fm, and in the part of the
\* snapshot the job fl has still to send once it has cleared the list.
Waiting(fm, fl, m) ==
    Count(fm, m)
      + IF fl.pc = "send"
        THEN Cardinality({i \in fl.k..Len(fl.retry_queue) : fl.retry_queue[i] = m})
        ELSE 0

\* C24: a message leaves the backlog only by being delivered: over every
\* step, of the retry job or of a handler, the copies of a message that stop
\* waiting are no more than the copies send_message delivered in that step,
\* so that with every send failing each entry is still queued after any
\* number of runs of the job.
C24_LeavesOnlyWhenDelivered ==
    [][\A m \in QueueMessages \cup LateMessages :
         Waiting(failed_messages, flush, m)
           <= Waiting(failed_messages', flush', m)
                + Count(delivered', m) - Count(delivered, m)]_vars
\* C25: a TP_HIT (level L) or SL_HIT processed for an id whose trade is in
\* active_trades with the level's hit flag still False sets that flag, and
\* closes the trade when the level is TP3 or SL, whatever was processed
\* before it.
C25_OpenLevelIsApplied ==
    [][(/\ LevelEventDone
        /\ last'.id \in DOMAIN active_trades
        /\ ~LevelHit(trades[active_trades[last'.id]], last'.level))
         => LET o == active_trades[last'.id] IN
            /\ LevelHit(trades'[o], last'.level)
            /\ last'.level \in {"TP3", "SL"}
                 => (/\ trades'[o].closed
                     /\ last'.id \notin DOMAIN active_trades')]_vars
\* A step in which no send fails: a send of the retry job returns True and
\* no handler appends a message of a failed send.
SendOk ==
    /\ Len(flush'.results) > Len(flush.results)
         => flush'.results[Len(flush'.results)]
    /\ enqueued' = enqueued

\* C26: if from some point on every send succeeds, then with the retry job
\* kept running every message that is in failed_messages is eventually
\* delivered, and failed_messages eventually is empty and stays empty.
C26_BacklogDrainsOnceTransportWorks ==
    <>[][SendOk]_vars
      => /\ \A m \in QueueMessages \cup LateMessages :
              (Count(failed_messages, m) > 0) ~> (Count(delivered, m) > 0)
         /\ <>[](failed_messages = <<>>)
\* C27: whenever no handler is in the middle of its run, every trade in
\* active_trades is stored under its own id, is not closed and has
\* final_result ACTIVE; every trade in closed_trades is closed with
\* final_result TP3 or SL; and no trade is in both.
C27_CollectionsMatchTradeState ==
    Idle =>
      /\ \A id \in DOMAIN active_trades :
            LET tr == trades[active_trades[id]] IN
            tr.id = id /\ ~tr.closed /\ tr.final_result = "ACTIVE"
      /\ \A i \in 1..Len(closed_trades) :
            LET tr == trades[closed_trades[i]] IN
            tr.closed /\ tr.final_result \in {"TP3", "SL"}
      /\ \A id \in DOMAIN active_trades, i \in 1..Len(closed_trades) :
            active_trades[id] # closed_trades[i]
\* C28: for every trade and every level the hit flag and the notified flag
\* are equal after every handler and job, whatever send_message returned,
\* and a flag that is True stays True.
C28_HitEqualsNotified ==
    [][\A o \in 1..Len(trades'), level \in Levels :
         /\ LevelHit(trades'[o], level) = Notified(trades'[o], level)
         /\ (o \in Objs /\ LevelHit(trades[o], level))
              => LevelHit(trades'[o], level)
         /\ (o \in Objs /\ Notified(trades[o], level))
              => Notified(trades'[o], level)]_vars

\* C28 witness: TP1 has just been applied to a trade, both flags are set and
\* the notification was not delivered.
C28_Witness ==
    /\ last.kind = "TP_HIT" /\ last.level = "TP1"
    /\ last.applied /\ last.send = "failed"
    /\ \E o \in Objs :
          /\ trades[o].id = last.id
          /\ trades[o].tp1_hit /\ trades[o].tp1_notified
          /\ ~trades[o].tp2_hit /\ ~trades[o].tp2_notified
\* The number of trades a result of get_*_stats stands for.
Counted(s) == IF s = None THEN 0 ELSE s.total_signals

\* C29: with NEW_TRADE handled while a summary job runs, every trade the
\* job's reset removes from the window was in the window when the job's
\* statistics were computed: the window the reset empties is no longer
\* than the window the statistics counted.
C29_ResetRemovesOnlyCountedTrades ==
    [][\A kind \in JobKinds :
         (job[kind].pc = "reset" /\ job'[kind].pc = "idle")
            => Len(JobWindow(kind)) = Counted(job[kind].stats)]_vars
\* C30: an event whose kind is not NEW_TRADE, TP_HIT or SL_HIT, and a TP_HIT
\* whose level is not TP1, TP2 or TP3, returns False, changes neither the
\* collections, the windows, the dedup sets, the trades nor failed_messages,
\* and gives nothing to send_message.
C30_UnknownEventRejectedUnchanged ==
    [][(/\ steps' # steps
        /\ \/ last'.kind = "UNKNOWN"
           \/ last'.kind = "TP_HIT" /\ last'.level \notin TpLevels)
         => /\ last'.ret = FALSE
            /\ last'.send = "none"
            /\ UNCHANGED <<ledger, guards, failed_messages, dispatched>>]_vars

\* C30 witness: a TP_HIT with an unknown level has been rejected while a
\* trade with its id is active and a message is waiting in failed_messages.
C30_Witness ==
    /\ last.kind = "TP_HIT" /\ last.level \in BadLevels
    /\ ~last.ret
    /\ last.id \in DOMAIN active_trades
    /\ failed_messages # <<>>
====
